---------------------------- MODULE Spec2Model ----------------------------
(***************************************************************************)
(* Model of the nova-taxi web site: the location table and the per-slug    *)
(* location page (config/locations.js, app/ort/[slug]/page.js), the        *)
(* enumerations of the location pages (generateStaticParams, app/sitemap.js,*)
(* app/api/seo/locations/route.js), the service-area links of the home     *)
(* page, the price widget (components/common/PriceCalculator.jsx) and the  *)
(* header with its mobile menu (Header, in components/layout/Footer.jsx).  *)
(*                                                                         *)
(* JavaScript values are records [t, v]: t is the type tag and v the       *)
(* payload of a finite number.  Finite numbers are exact decimals in fixed *)
(* point: a distance is counted in 1/DistScale km, a price in 1/PriceScale *)
(* CHF.  The binary rounding error of IEEE doubles (below 1e-12 CHF for    *)
(* the fares computed here) is not represented; for the distances of       *)
(* DistanceTexts the double computation stores the same decimal amounts.   *)
(***************************************************************************)
EXTENDS Integers, Sequences, FiniteSets, TLC

VARIABLES locations,      \* the location table of config/locations.js
          allLocationSlugs, \* the key list of config/locations.js
          response,       \* outcome of the last server-side call
          distance,       \* PriceCalculator state: distance
          isNight,        \* PriceCalculator state: isNight
          estimatedPrice, \* PriceCalculator state: estimatedPrice
          submitCount,    \* history: submits handled since the inputs last changed
          replacedNumber, \* history: the last submit overwrote a stored finite estimate
          hadValidSubmit, \* history: a submit with a finite distance above zero was handled
          widgets,        \* two mounted PriceCalculator instances, each with its own state
          solo,           \* history: the state each instance reaches from its own events alone
          isScrolled,     \* Header state: isScrolled
          menuOpen,       \* Header state: menuOpen
          scrollY,        \* window.scrollY, in pixels
          headerEvent,    \* history: the kind of the last event the header handled
          followedHref    \* history: the href of the last link clicked in the header

vars == <<locations, allLocationSlugs, response, distance, isNight, estimatedPrice,
          submitCount, replacedNumber, hadValidSubmit, widgets, solo,
          isScrolled, menuOpen, scrollY, headerEvent, followedHref>>

headerVars == <<isScrolled, menuOpen, scrollY, headerEvent, followedHref>>

widgetVars == <<distance, isNight, estimatedPrice, submitCount, replacedNumber,
                hadValidSubmit>>

(***************************************************************************)
(* Bounds and scales                                                       *)
(***************************************************************************)
\* submits in a row, without a change of the inputs in between
MaxSubmits == 3

\* the literals 6.6, 4.2 and 1.2 carry one decimal: they are counted in tenths
ConstScale == 10

\* distances are counted in thousandths of a km
DistScale == ConstScale * ConstScale * ConstScale

\* (tenths * thousandths) * tenths: prices are counted in 1/100000 CHF
PriceScale == DistScale * ConstScale * ConstScale

(***************************************************************************)
(* JavaScript values                                                       *)
(***************************************************************************)
Null == [t |-> "null", v |-> 0]

NaN == [t |-> "NaN", v |-> 0]

PosInfinity == [t |-> "Infinity", v |-> 1]

NegInfinity == [t |-> "Infinity", v |-> -1]

Num(x) == [t |-> "number", v |-> x]

IsFinite(x) == x.t = "number"

\* !x for a number x: true for NaN, +0 and -0
Falsy(x) == x.t = "NaN" \/ (x.t = "number" /\ x.v = 0)

\* x <= 0 for a number x: false for NaN
LeqZero(x) == (x.t = "number" /\ x.v <= 0) \/ x = NegInfinity

\* a distance the fare is defined for: finite and greater than zero
ValidDistance(d) == IsFinite(d) /\ d.v > 0

(***************************************************************************)
(* parseFloat, on a text given as a sequence of characters: leading blanks *)
(* are skipped, the longest prefix that is a decimal literal (sign,        *)
(* digits, fraction, exponent, or the word Infinity) is converted and the  *)
(* rest ignored; no such prefix gives NaN.  The result is a distance in    *)
(* 1/DistScale km: decimals beyond the third are dropped, and a finite     *)
(* result must fit the integers of the model checker.                      *)
(***************************************************************************)
DigitChars == <<"0", "1", "2", "3", "4", "5", "6", "7", "8", "9">>

IsDigit(c) == \E i \in 1..10 : DigitChars[i] = c

DigitVal(c) == (CHOOSE i \in 1..10 : DigitChars[i] = c) - 1

InfinityChars == <<"I", "n", "f", "i", "n", "i", "t", "y">>

RECURSIVE TrimStart(_)
TrimStart(s) == IF s # <<>> /\ Head(s) = " " THEN TrimStart(Tail(s)) ELSE s

RECURSIVE DigitRun(_)
DigitRun(s) == IF s # <<>> /\ IsDigit(Head(s)) THEN <<Head(s)>> \o DigitRun(Tail(s)) ELSE <<>>

RECURSIVE DigitsValue(_)
DigitsValue(ds) == IF ds = <<>> THEN 0
                   ELSE DigitsValue(SubSeq(ds, 1, Len(ds) - 1)) * 10 + DigitVal(ds[Len(ds)])

FracValue(ds) ==
    LET d(i) == IF i <= Len(ds) THEN DigitVal(ds[i]) ELSE 0
    IN  d(1) * 100 + d(2) * 10 + d(3)

RECURSIVE Pow10(_)
Pow10(n) == IF n = 0 THEN 1 ELSE 10 * Pow10(n - 1)

RECURSIVE DecimalDigits(_)
DecimalDigits(n) == IF n < 10 THEN 1 ELSE 1 + DecimalDigits(n \div 10)

\* mag * 10^(exp - 3) is at least 2^1024 - 2^970 = 1.797693134862315807...e308,
\* the least magnitude that converts to Infinity (mag > 0 has at most 10 digits)
ExceedsDouble(mag, exp) ==
    LET len    == DecimalDigits(mag)
        decade == len + exp - 4          \* mag * 10^(exp - 3) = d.ddd * 10^decade
        lead9  == IF len = 10 THEN mag \div 10 ELSE mag * Pow10(9 - len)
        tenth  == IF len = 10 THEN mag % 10 ELSE 0
    IN  \/ decade > 308
        \/ /\ decade = 308
           /\ \/ lead9 > 179769313
              \/ lead9 = 179769313 /\ tenth >= 5

ParseFloat(text) ==
    LET s0   == TrimStart(text)
        neg  == s0 # <<>> /\ Head(s0) = "-"
        sgn  == s0 # <<>> /\ Head(s0) \in {"-", "+"}
        s1   == IF sgn THEN Tail(s0) ELSE s0
        ip   == DigitRun(s1)
        s2   == SubSeq(s1, Len(ip) + 1, Len(s1))
        dot  == s2 # <<>> /\ Head(s2) = "."
        fp   == IF dot THEN DigitRun(Tail(s2)) ELSE <<>>
        s3   == IF dot THEN SubSeq(s2, Len(fp) + 2, Len(s2)) ELSE s2
        \* the exponent part counts only when a digit follows the e
        emk  == s3 # <<>> /\ Head(s3) \in {"e", "E"}
        s4   == IF emk THEN Tail(s3) ELSE <<>>
        esgn == s4 # <<>> /\ Head(s4) \in {"-", "+"}
        eneg == s4 # <<>> /\ Head(s4) = "-"
        ed   == DigitRun(IF esgn THEN Tail(s4) ELSE s4)
        exp  == IF eneg THEN 0 - DigitsValue(ed) ELSE DigitsValue(ed)
        mag  == DigitsValue(ip) * DistScale + FracValue(fp)
        abs  == IF mag = 0 \/ exp = 0 THEN mag
                ELSE IF exp > 0 THEN mag * Pow10(exp)
                ELSE IF 0 - exp > 12 THEN 0
                ELSE mag \div Pow10(0 - exp)
    IN  IF Len(s1) >= 8 /\ SubSeq(s1, 1, 8) = InfinityChars
          THEN (IF neg THEN NegInfinity ELSE PosInfinity)
        ELSE IF ip = <<>> /\ fp = <<>> THEN NaN
        ELSE IF mag > 0 /\ ExceedsDouble(mag, exp)
          THEN (IF neg THEN NegInfinity ELSE PosInfinity)
        ELSE Num(IF neg THEN 0 - abs ELSE abs)

(***************************************************************************)
(* The location table (config/locations.js).  Texts are abbreviated to     *)
(* their first words.                                                      *)
(***************************************************************************)
KnownSlugs == {"arth-goldau", "luzern", "zug"}

LocationTable ==
    [s \in KnownSlugs |->
        CASE s = "arth-goldau" ->
               [title |-> "Taxi Arth-Goldau | Nova Taxi",
                metaDescription |-> "Nova Taxi - Ihr moderner Taxi-Service in Arth-Goldau.",
                h1 |-> "Taxi in Arth-Goldau",
                intro |-> "Mit Nova Taxi erreichen Sie Arth-Goldau, Luzern, Zug",
                highlightPoints |-> <<"24/7 verfuegbar",
                                      "Direkte Verbindung zum Bahnhof Arth-Goldau",
                                      "Komfortable Fahrzeuge mit viel Platz">>]
          [] s = "luzern" ->
               [title |-> "Taxi Luzern | Nova Taxi",
                metaDescription |-> "Nova Taxi - moderner Taxi-Service in Luzern.",
                h1 |-> "Taxi in Luzern",
                intro |-> "Ob Altstadt, Bahnhof oder Seeufer",
                highlightPoints |-> <<"Schnelle Abholung im Raum Luzern",
                                      "Direkte Flughafentransfers nach Zuerich und Basel",
                                      "Ideale Loesung fuer Geschaefts- und Privatkunden">>]
          [] s = "zug" ->
               [title |-> "Taxi Zug | Nova Taxi",
                metaDescription |-> "Nova Taxi - zuverlaessiger Taxi-Service in Zug.",
                h1 |-> "Taxi in Zug",
                intro |-> "Fuer Geschaefts- und Privatkunden in Zug",
                highlightPoints |-> <<"Diskrete Businessfahrten",
                                      "Planbare Transfers zu Flughaefen und Bahnhoefen",
                                      "Komfortable Fahrzeuge fuer Einzelpersonen und Gruppen">>]]

\* the keys of the object literal, in the order they are written
InsertionOrder == <<"arth-goldau", "luzern", "zug">>

\* variant: the keys in reverse order
ObjectKeys_reversed(table) ==
    LET keys == SelectSeq(InsertionOrder, LAMBDA k : k \in DOMAIN table)
    IN  [i \in 1..Len(keys) |-> keys[Len(keys) + 1 - i]]

\* Object.keys(table): the own keys, in insertion order
ObjectKeys(table) == SelectSeq(InsertionOrder, LAMBDA k : k \in DOMAIN table)

\* Object.entries(table): the [key, value] pairs, in insertion order
ObjectEntries(table) ==
    LET keys == ObjectKeys(table)
    IN  [i \in 1..Len(keys) |-> <<keys[i], table[keys[i]]>>]

(***************************************************************************)
(* locations[slug]: a property read on a plain object.  An own key yields  *)
(* its record; a name that Object.prototype defines yields the inherited   *)
(* member (a function, or for __proto__ the prototype object), which is    *)
(* truthy and has none of the record's fields; any other name yields       *)
(* undefined.                                                              *)
(***************************************************************************)
ObjectPrototypeNames ==
    {"constructor", "toString", "toLocaleString", "valueOf", "hasOwnProperty",
     "isPrototypeOf", "propertyIsEnumerable", "__proto__"}

\* variant: every own key selects the same record
Lookup_firstRecord(table, slug) ==
    IF slug \in DOMAIN table THEN [kind |-> "record", key |-> "arth-goldau"]
    ELSE IF slug \in ObjectPrototypeNames THEN [kind |-> "inherited", key |-> slug]
    ELSE [kind |-> "undefined", key |-> ""]

\* variant: the slug is trimmed, lower-cased and stripped of a trailing slash
\* before the read
Lookup_normalised(table, slug) ==
    LET norm == CASE slug = "Luzern" -> "luzern"
                  [] slug \in {"ZUG", " zug", "zug/"} -> "zug"
                  [] OTHER -> slug
    IN  IF norm \in DOMAIN table THEN [kind |-> "record", key |-> norm]
        ELSE IF norm \in ObjectPrototypeNames THEN [kind |-> "inherited", key |-> norm]
        ELSE [kind |-> "undefined", key |-> ""]

Lookup(table, slug) ==
    IF slug \in DOMAIN table THEN [kind |-> "record", key |-> slug]
    ELSE IF slug \in ObjectPrototypeNames THEN [kind |-> "inherited", key |-> slug]
    ELSE [kind |-> "undefined", key |-> ""]

\* !location
Missing(location) == location.kind = "undefined"

Undefined == "undefined"

\* location.field, for a field whose value is a text
Field(table, location, field) ==
    IF location.kind = "record" THEN table[location.key][field] ELSE Undefined

(***************************************************************************)
(* Outcomes of the server-side calls                                       *)
(***************************************************************************)
NoResponse ==
    [op |-> "none", slug |-> "", status |-> "none",
     title |-> Undefined, description |-> Undefined,
     h1 |-> Undefined, intro |-> Undefined, points |-> <<>>, list |-> <<>>]

\* generateMetadata({ params })
generateMetadata(table, slug) ==
    LET location == Lookup(table, slug)
    IN  IF Missing(location)
          THEN [NoResponse EXCEPT !.op = "generateMetadata", !.slug = slug,
                                  !.status = "empty"]
          ELSE [NoResponse EXCEPT !.op = "generateMetadata", !.slug = slug,
                                  !.status = "metadata",
                                  !.title = Field(table, location, "title"),
                                  !.description = Field(table, location, "metaDescription")]

\* LocationPage({ params }): notFound() leaves the function; otherwise the
\* template reads location.h1, location.intro and calls
\* location.highlightPoints.map, a TypeError when highlightPoints is undefined
LocationPage(table, slug) ==
    LET location == Lookup(table, slug)
    IN  IF Missing(location)
          THEN [NoResponse EXCEPT !.op = "LocationPage", !.slug = slug,
                                  !.status = "notFound"]
        ELSE IF location.kind # "record"
          THEN [NoResponse EXCEPT !.op = "LocationPage", !.slug = slug,
                                  !.status = "TypeError"]
          ELSE [NoResponse EXCEPT !.op = "LocationPage", !.slug = slug,
                                  !.status = "rendered",
                                  !.h1 = Field(table, location, "h1"),
                                  !.intro = Field(table, location, "intro"),
                                  !.points = table[location.key].highlightPoints]

\* generateStaticParams(): allLocationSlugs.map((slug) => ({ slug }))
generateStaticParams(slugs) ==
    [NoResponse EXCEPT !.op = "generateStaticParams", !.status = "params",
                       !.list = [i \in 1..Len(slugs) |-> [slug |-> slugs[i]]]]

\* variant: the heading is taken from the title
SeoEntry_headingFromTitle(slug, data) ==
    [slug |-> slug, title |-> data.title,
     description |-> data.metaDescription, h1 |-> data.title]

\* ([slug, data]) => ({ slug, title: data.title, description: data.metaDescription, h1: data.h1 })
SeoEntry(slug, data) ==
    [slug |-> slug, title |-> data.title,
     description |-> data.metaDescription, h1 |-> data.h1]

\* GET() of app/api/seo/locations/route.js: the body { locations: [...] }
GET(table) ==
    LET entries == ObjectEntries(table)
    IN  [NoResponse EXCEPT !.op = "GET", !.status = "json",
                           !.list = [i \in 1..Len(entries) |->
                                        SeoEntry(entries[i][1], entries[i][2])]]

BaseUrl == "https://www.nova-taxi.com"

StaticRoutes ==
    <<"", "/flughafentransfer", "/business", "/kurierfahrten", "/preise",
      "/kontakt", "/ueber-uns">>

\* variant: the location entries come before the static routes
sitemap_locationsFirst(slugs) ==
    LET staticRoutes   == [i \in 1..Len(StaticRoutes) |->
                             [url |-> <<BaseUrl, StaticRoutes[i]>>, lastModified |-> "now"]]
        locationRoutes == [i \in 1..Len(slugs) |->
                             [url |-> <<BaseUrl, "/ort/", slugs[i]>>, lastModified |-> "now"]]
    IN  [NoResponse EXCEPT !.op = "sitemap", !.status = "routes",
                           !.list = locationRoutes \o staticRoutes]

\* sitemap(): the static routes, then one /ort/<slug> entry per key; a url is
\* the sequence of the parts of its template, lastModified the time of the call
sitemap(slugs) ==
    LET staticRoutes   == [i \in 1..Len(StaticRoutes) |->
                             [url |-> <<BaseUrl, StaticRoutes[i]>>, lastModified |-> "now"]]
        locationRoutes == [i \in 1..Len(slugs) |->
                             [url |-> <<BaseUrl, "/ort/", slugs[i]>>, lastModified |-> "now"]]
    IN  [NoResponse EXCEPT !.op = "sitemap", !.status = "routes",
                           !.list = staticRoutes \o locationRoutes]

\* AREAS of the home page's ServiceAreasStrip
AREAS ==
    <<[slug |-> "arth-goldau", label |-> "Arth-Goldau"],
      [slug |-> "luzern", label |-> "Luzern"],
      [slug |-> "zug", label |-> "Zug"],
      [slug |-> "weggis", label |-> "Weggis"],
      [slug |-> "vitznau", label |-> "Vitznau"],
      [slug |-> "schwyz", label |-> "Schwyz"]>>

\* href={`/ort/${area.slug}`}: the segment after /ort/ becomes params.slug
AreaLinkSlug(area) == area.slug

\* the error that leaves the call: notFound() of next/navigation signals the
\* condition by throwing its NEXT_NOT_FOUND error, which the framework catches
Thrown(resp) ==
    CASE resp.status = "notFound" -> "NEXT_NOT_FOUND"
      [] resp.status = "TypeError" -> "TypeError"
      [] OTHER -> "none"

\* the call went on to read fields of location
Dereferenced(resp) == resp.status \in {"metadata", "rendered", "TypeError"}

\* slugs requested from outside: /ort/<slug>
RequestedSlugs ==
    KnownSlugs \cup {"weggis", "Luzern", "ZUG", " zug", "zug/",
                     "constructor", "toString", "__proto__"}

(***************************************************************************)
(* The price widget (components/common/PriceCalculator.jsx)                *)
(***************************************************************************)
\* variant: a base fare of 6.0 CHF
BASE_PRICE_sixFlat == 6 * ConstScale

\* 6.6 CHF, in tenths
BASE_PRICE == 66

\* 4.2 CHF per km, in tenths
PRICE_PER_KM == 42

\* variant: a factor of 0.8
NIGHT_SURCHARGE_FACTOR_discount == ConstScale - 2

\* 1.2, in tenths
NIGHT_SURCHARGE_FACTOR == 12

\* x * c and x + c for a JavaScript number x and a positive finite c:
\* NaN and the infinities are absorbing
Times(x, c) == IF IsFinite(x) THEN Num(x.v * c) ELSE x

Plus(x, c) == IF IsFinite(x) THEN Num(x.v + c) ELSE x

\* x / c for a finite x that c divides, or a non-finite x
DividedBy(x, c) == IF IsFinite(x) THEN Num(x.v \div c) ELSE x

\* variant: Math.floor in place of Math.round
MathRound_floor(x) ==
    IF IsFinite(x) THEN Num((x.v \div PriceScale) * PriceScale) ELSE x

\* variant: Math.ceil in place of Math.round
MathRound_ceil(x) ==
    IF IsFinite(x) THEN Num(((x.v + PriceScale - 1) \div PriceScale) * PriceScale) ELSE x

\* Math.round on a value counted in 1/PriceScale: the nearest integer, a tie
\* going to the larger one
MathRound(x) ==
    IF IsFinite(x) THEN Num(((x.v + PriceScale \div 2) \div PriceScale) * PriceScale) ELSE x

\* variant: the test distance <= 0 is missing
Rejected_falsyOnly(d) == Falsy(d)

\* !distance || distance <= 0
Rejected(d) == Falsy(d) \/ LeqZero(d)

\* variant: the surcharge is applied to the distance charge only
Price_surchargeOnDistance(d, night) ==
    LET perKm == IF night THEN Times(Times(d, PRICE_PER_KM), NIGHT_SURCHARGE_FACTOR)
                          ELSE Times(Times(d, PRICE_PER_KM), ConstScale)
    IN  Plus(perKm, BASE_PRICE * DistScale * ConstScale)

\* variant: a surcharge factor of 1.25
Price_quarterSurcharge(d, night) ==
    LET price == Plus(Times(d, PRICE_PER_KM), BASE_PRICE * DistScale)
    IN  IF night THEN DividedBy(Times(price, 125), ConstScale)
                 ELSE Times(price, ConstScale)

\* let price = BASE_PRICE + distance * PRICE_PER_KM;
\* if (isNight) price *= NIGHT_SURCHARGE_FACTOR;     (result in 1/PriceScale CHF)
Price(d, night) ==
    LET price == Plus(Times(d, PRICE_PER_KM), BASE_PRICE * DistScale)
    IN  IF night THEN Times(price, NIGHT_SURCHARGE_FACTOR)
                 ELSE Times(price, ConstScale)

\* Math.round(price * 20) / 20
RoundedPrice(price) == DividedBy(MathRound(Times(price, 20)), 20)

\* variant: a submit while an estimate is shown clears it
SubmitResult_toggle(d, night) ==
    IF Rejected(d) \/ estimatedPrice # Null THEN Null ELSE RoundedPrice(Price(d, night))

\* the value handleSubmit passes to setEstimatedPrice
SubmitResult(d, night) ==
    IF Rejected(d) THEN Null ELSE RoundedPrice(Price(d, night))

\* the blocks the component renders below its heading
View(estimate) ==
    {"form"} \cup (IF estimate # Null THEN {"estimate", "contactInvitation"} ELSE {})

(***************************************************************************)
(* Several mounted instances: every instance owns the three useState cells *)
(* of its component, and a handler reads and writes the cells of its own   *)
(* instance.                                                               *)
(***************************************************************************)
Instances == {1, 2}

\* useState(10), useState(false), useState(null)
InitialWidget == [distance |-> Num(10 * DistScale), isNight |-> FALSE, estimatedPrice |-> Null]

\* setDistance(parseFloat(e.target.value))
AfterChangeDistance(w, text) == [w EXCEPT !.distance = ParseFloat(text)]

\* setIsNight(e.target.checked)
AfterChangeNight(w, checked) == [w EXCEPT !.isNight = checked]

\* handleSubmit
AfterSubmit(w) == [w EXCEPT !.estimatedPrice = SubmitResult(w.distance, w.isNight)]

\* variant: the state lives in module-level variables that all instances share
SetState_shared(ws, i, st) == [j \in DOMAIN ws |-> st]

\* a state update of instance i
SetState(ws, i, st) == [ws EXCEPT ![i] = st]

\* texts an onChange event of the distance field can carry: the value of a
\* number field is empty or a floating-point literal
DistanceTexts ==
    { <<>>,
      <<"1", "e", "4", "0", "0">>,
      <<"-", "1", "e", "4", "0", "0">>,
      <<"-", "5">>,
      <<"0">>,
      <<"0", ".", "1", "2", "5">>,
      <<"1", ".", "5">>,
      <<"1", "0">>,
      <<"1", "2", ".", "5">> }

(***************************************************************************)
(* Initial state and actions                                               *)
(***************************************************************************)
\* texts and slugs of the interleaved runs
ConcurrentTexts == { <<>>, <<"1", ".", "5">>, <<"1", "2", ".", "5">> }

ConcurrentSlugs == {"luzern", "zug", "weggis"}

Init ==
    /\ locations = LocationTable
    /\ allLocationSlugs = ObjectKeys(LocationTable)
    /\ response = NoResponse
    /\ distance = Num(10 * DistScale)
    /\ isNight = FALSE
    /\ estimatedPrice = Null
    /\ submitCount = 0
    /\ replacedNumber = FALSE
    /\ hadValidSubmit = FALSE
    /\ widgets = [i \in Instances |-> InitialWidget]
    /\ solo = [i \in Instances |-> InitialWidget]
    /\ isScrolled = FALSE
    /\ menuOpen = FALSE
    /\ scrollY = 0
    /\ headerEvent = "none"
    /\ followedHref = ""

\* a request for the metadata of /ort/<slug>
RequestMetadata ==
    \E slug \in RequestedSlugs :
        /\ response' = generateMetadata(locations, slug)
        /\ UNCHANGED <<headerVars, locations, allLocationSlugs, widgets, solo, widgetVars>>

\* a request for the page /ort/<slug>
RequestPage ==
    \E slug \in RequestedSlugs :
        /\ response' = LocationPage(locations, slug)
        /\ UNCHANGED <<headerVars, locations, allLocationSlugs, widgets, solo, widgetVars>>

\* variant: the key list is reversed in place before it is mapped
RequestStaticParams_reversing ==
    /\ allLocationSlugs' = [i \in 1..Len(allLocationSlugs) |->
                               allLocationSlugs[Len(allLocationSlugs) + 1 - i]]
    /\ response' = generateStaticParams(allLocationSlugs')
    /\ UNCHANGED <<headerVars, locations, widgets, solo, widgetVars>>

\* the build asks for the static parameters of /ort/[slug]
RequestStaticParams ==
    /\ response' = generateStaticParams(allLocationSlugs)
    /\ UNCHANGED <<headerVars, locations, allLocationSlugs, widgets, solo, widgetVars>>

\* a request for /sitemap.xml
RequestSitemap ==
    /\ response' = sitemap(allLocationSlugs)
    /\ UNCHANGED <<headerVars, locations, allLocationSlugs, widgets, solo, widgetVars>>

\* a request for /api/seo/locations
RequestSeoListing ==
    /\ response' = GET(locations)
    /\ UNCHANGED <<headerVars, locations, allLocationSlugs, widgets, solo, widgetVars>>

\* a click on one of the area links of the home page
ClickAreaLink ==
    \E i \in 1..Len(AREAS) :
        /\ response' = LocationPage(locations, AreaLinkSlug(AREAS[i]))
        /\ UNCHANGED <<headerVars, locations, allLocationSlugs, widgets, solo, widgetVars>>

\* variant: the estimate is recomputed on every change of the distance
ChangeDistance_recompute ==
    \E text \in DistanceTexts :
        /\ distance' = ParseFloat(text)
        /\ estimatedPrice' = SubmitResult(distance', isNight)
        /\ submitCount' = 0
        /\ UNCHANGED <<headerVars, locations, allLocationSlugs, widgets, solo, response, isNight,
                       replacedNumber, hadValidSubmit>>

\* onChange of the distance field: setDistance(parseFloat(e.target.value))
ChangeDistance ==
    \E text \in DistanceTexts :
        /\ distance' = ParseFloat(text)
        /\ submitCount' = 0
        /\ UNCHANGED <<headerVars, locations, allLocationSlugs, widgets, solo, response, isNight, estimatedPrice,
                       replacedNumber, hadValidSubmit>>

\* onChange of the checkbox: setIsNight(e.target.checked)
ChangeNight ==
    \E checked \in BOOLEAN :
        /\ isNight' = checked
        /\ submitCount' = 0
        /\ UNCHANGED <<headerVars, locations, allLocationSlugs, widgets, solo, response, distance, estimatedPrice,
                       replacedNumber, hadValidSubmit>>

\* onSubmit of the form
handleSubmit ==
    /\ submitCount < MaxSubmits
    /\ estimatedPrice' = SubmitResult(distance, isNight)
    /\ submitCount' = submitCount + 1
    /\ replacedNumber' = IsFinite(estimatedPrice)
    /\ hadValidSubmit' = (hadValidSubmit \/ ValidDistance(distance))
    /\ UNCHANGED <<headerVars, locations, allLocationSlugs, widgets, solo, response, distance, isNight>>

Next ==
    \/ RequestMetadata
    \/ RequestPage
    \/ RequestStaticParams
    \/ RequestSitemap
    \/ RequestSeoListing
    \/ ClickAreaLink
    \/ ChangeDistance
    \/ ChangeNight
    \/ handleSubmit

Spec == Init /\ [][Next]_vars

\* events of the two instances and page renders, in any interleaving
InstanceChangeDistance ==
    \E i \in Instances, text \in ConcurrentTexts :
        /\ widgets' = SetState(widgets, i, AfterChangeDistance(widgets[i], text))
        /\ solo' = [solo EXCEPT ![i] = AfterChangeDistance(solo[i], text)]
        /\ UNCHANGED <<headerVars, locations, allLocationSlugs, response, widgetVars>>

InstanceChangeNight ==
    \E i \in Instances, checked \in BOOLEAN :
        /\ widgets' = SetState(widgets, i, AfterChangeNight(widgets[i], checked))
        /\ solo' = [solo EXCEPT ![i] = AfterChangeNight(solo[i], checked)]
        /\ UNCHANGED <<headerVars, locations, allLocationSlugs, response, widgetVars>>

InstanceSubmit ==
    \E i \in Instances :
        /\ widgets' = SetState(widgets, i, AfterSubmit(widgets[i]))
        /\ solo' = [solo EXCEPT ![i] = AfterSubmit(solo[i])]
        /\ UNCHANGED <<headerVars, locations, allLocationSlugs, response, widgetVars>>

ConcurrentRender ==
    \E slug \in ConcurrentSlugs :
        /\ response' = LocationPage(locations, slug)
        /\ UNCHANGED <<headerVars, locations, allLocationSlugs, widgets, solo, widgetVars>>

NextConcurrent ==
    \/ InstanceChangeDistance
    \/ InstanceChangeNight
    \/ InstanceSubmit
    \/ ConcurrentRender

SpecConcurrent == Init /\ [][NextConcurrent]_vars

(***************************************************************************)
(* The header (Header, in components/layout/Footer.jsx): the scroll        *)
(* listener, the menu button and the links of the desktop navigation and   *)
(* of the mobile menu.  The links of the mobile menu exist only while      *)
(* menuOpen holds.                                                         *)
(***************************************************************************)
\* scroll offsets a scroll event can report: 0..MaxScrollY pixels
MaxScrollY == 12

navItems ==
    <<[href |-> "/", label |-> "Startseite"],
      [href |-> "#services", label |-> "Dienstleistungen"],
      [href |-> "/flughafentransfer", label |-> "Flughafentransfer"],
      [href |-> "/business", label |-> "Business"],
      [href |-> "/kurierfahrten", label |-> "Kurierfahrten"],
      [href |-> "/preise", label |-> "Preise"],
      [href |-> "#areas", label |-> "Servicegebiete"],
      [href |-> "/ueber-uns", label |-> "Ueber uns"],
      [href |-> "/kontakt", label |-> "Kontakt"]>>

CallHref == "tel:+41766113131"

\* the state of the rest of the site, which no event of the header touches
siteVars == <<locations, allLocationSlugs, response, widgets, solo, widgetVars>>

\* the scroll listener: setIsScrolled(window.scrollY > 10)
onScroll ==
    \E y \in 0..MaxScrollY :
        /\ scrollY' = y
        /\ isScrolled' = (y > 10)
        /\ headerEvent' = "scroll"
        /\ UNCHANGED <<menuOpen, followedHref, siteVars>>

\* onClick of the menu button: setMenuOpen((open) => !open)
ClickMenuButton ==
    /\ menuOpen' = ~menuOpen
    /\ headerEvent' = "menuButton"
    /\ UNCHANGED <<isScrolled, scrollY, followedHref, siteVars>>

\* variant: a link of the mobile menu has no onClick handler
ClickMenuLink_staysOpen ==
    /\ menuOpen
    /\ \E i \in 1..Len(navItems) : followedHref' = navItems[i].href
    /\ headerEvent' = "menuLink"
    /\ UNCHANGED <<menuOpen, isScrolled, scrollY, siteVars>>

\* onClick of a navigation link of the mobile menu: setMenuOpen(false)
ClickMenuLink ==
    /\ menuOpen
    /\ \E i \in 1..Len(navItems) : followedHref' = navItems[i].href
    /\ menuOpen' = FALSE
    /\ headerEvent' = "menuLink"
    /\ UNCHANGED <<isScrolled, scrollY, siteVars>>

\* onClick of the call link of the mobile menu: setMenuOpen(false)
ClickMenuCallLink ==
    /\ menuOpen
    /\ followedHref' = CallHref
    /\ menuOpen' = FALSE
    /\ headerEvent' = "menuCallLink"
    /\ UNCHANGED <<isScrolled, scrollY, siteVars>>

\* a click on a link of the desktop navigation, which has no onClick handler
ClickNavLink ==
    /\ \E i \in 1..Len(navItems) : followedHref' = navItems[i].href
    /\ headerEvent' = "navLink"
    /\ UNCHANGED <<isScrolled, menuOpen, scrollY, siteVars>>

\* a click on the call link of the desktop navigation
ClickNavCallLink ==
    /\ followedHref' = CallHref
    /\ headerEvent' = "navCallLink"
    /\ UNCHANGED <<isScrolled, menuOpen, scrollY, siteVars>>

NextHeader ==
    \/ onScroll
    \/ ClickMenuButton
    \/ ClickMenuLink
    \/ ClickMenuCallLink
    \/ ClickNavLink
    \/ ClickNavCallLink

SpecHeader == Init /\ [][NextHeader]_vars

\* the widget shows the outcome of a submit of the inputs it holds
Submitted == submitCount > 0

TypeOK ==
    /\ locations = LocationTable
    /\ isNight \in BOOLEAN
    /\ submitCount \in 0..MaxSubmits
    /\ estimatedPrice.t \in {"null", "number", "Infinity"}
    /\ distance.t \in {"number", "NaN", "Infinity"}
    /\ hadValidSubmit \in BOOLEAN

(***************************************************************************)
(* Properties                                                              *)
(***************************************************************************)
\* C1: every slug outside the known set resolves to "not found": LocationPage
\* takes the notFound() branch and generateMetadata returns empty metadata.
C1_UnknownSlugIsNotFound ==
    response.slug \notin KnownSlugs =>
        /\ response.op = "LocationPage" => response.status = "notFound"
        /\ response.op = "generateMetadata" =>
               response.title = Undefined /\ response.description = Undefined

\* C2: a known slug resolves to the record stored under exactly that slug,
\* never to the record of another slug.
C2_KnownSlugYieldsOwnRecord ==
    response.op # "none" /\ response.slug \in KnownSlugs =>
        LET own == LocationTable[response.slug]
        IN  /\ response.op = "LocationPage" =>
                /\ response.status = "rendered"
                /\ response.h1 = own.h1
                /\ response.intro = own.intro
                /\ response.points = own.highlightPoints
                /\ \A other \in KnownSlugs \ {response.slug} :
                       response.h1 # LocationTable[other].h1
            /\ response.op = "generateMetadata" =>
                /\ response.status = "metadata"
                /\ response.title = own.title
                /\ response.description = own.metaDescription
                /\ \A other \in KnownSlugs \ {response.slug} :
                       response.title # LocationTable[other].title

C2_Witness ==
    /\ response.op = "LocationPage"
    /\ response.slug = "zug"
    /\ response.h1 = "Taxi in Zug"

C4_RoundingLaw ==
    Submitted /\ ValidDistance(distance) =>
        LET fare == Price(distance, isNight).v
            diff == estimatedPrice.v - fare
        IN  /\ IsFinite(estimatedPrice)
            /\ estimatedPrice.v % (PriceScale \div 20) = 0
            /\ diff <= PriceScale \div 40
            /\ 0 - diff <= PriceScale \div 40

\* a fare halfway between two multiples of 0.05: 7.125 is stored as 7.15
C4_Witness ==
    /\ Submitted
    /\ distance = Num(125)
    /\ ~isNight
    /\ estimatedPrice.v - Price(distance, isNight).v = PriceScale \div 40

\* C5: a submit with a distance that is not a finite number greater than zero
\* (NaN, an infinity, zero or a negative number) leaves the estimate null.
C5_InvalidDistanceNoEstimate ==
    Submitted /\ ~ValidDistance(distance) => estimatedPrice = Null

\* C6: a submit with a distance less than or equal to zero stores null, also
\* over an estimate stored by an earlier submit.
C6_NonPositiveDistanceNoEstimate ==
    Submitted /\ ((IsFinite(distance) /\ distance.v <= 0) \/ distance = NegInfinity)
        => estimatedPrice = Null

C6_Witness ==
    /\ Submitted
    /\ distance = Num(0 - 5 * DistScale)
    /\ replacedNumber
    /\ estimatedPrice = Null

\* C7: a submit with distance 10 and the flag off stores 48.60.
C7_TenKmDay ==
    Submitted /\ distance = Num(10 * DistScale) /\ ~isNight
        => estimatedPrice = Num(4860 * (PriceScale \div 100))

C7_Witness ==
    /\ submitCount = 1
    /\ distance = Num(10 * DistScale)
    /\ ~isNight
    /\ ~replacedNumber
    /\ estimatedPrice = Num(4860 * (PriceScale \div 100))

\* C8: a submit with distance 10 and the flag on stores 58.30, the unrounded
\* fare being 58.32.
C8_TenKmNight ==
    Submitted /\ distance = Num(10 * DistScale) /\ isNight
        => /\ Price(distance, isNight) = Num(5832 * (PriceScale \div 100))
           /\ estimatedPrice = Num(5830 * (PriceScale \div 100))

C8_Witness ==
    /\ Submitted
    /\ distance = Num(10 * DistScale)
    /\ isNight
    /\ estimatedPrice = Num(5830 * (PriceScale \div 100))

\* C9: a submit that follows a submit of the same distance and flag stores the
\* same estimate again: the stored estimate and the number of earlier submits
\* have no influence.
C9_ResubmitSameEstimate ==
    [][(Submitted /\ submitCount' = submitCount + 1) => estimatedPrice' = estimatedPrice]_vars

C9_Witness ==
    /\ submitCount = MaxSubmits
    /\ replacedNumber
    /\ isNight
    /\ estimatedPrice = Num(5830 * (PriceScale \div 100))

\* C10: while the estimate is null the widget shows an invitation to get in
\* touch or a prompt to correct the input.
C10_NullEstimateShowsInvitation ==
    estimatedPrice = Null =>
        \/ "contactInvitation" \in View(estimatedPrice)
        \/ "inputPrompt" \in View(estimatedPrice)

\* C11: an unknown slug is never handled by throwing, and no call for an
\* unknown slug goes on to read fields of the looked-up value.
C11_UnknownSlugNeverThrows ==
    response.op \in {"LocationPage", "generateMetadata"} /\ response.slug \notin KnownSlugs
        => Thrown(response) = "none" /\ ~Dereferenced(response)

\* slugs that differ from a known slug in letter case, surrounding blanks or
\* a trailing slash
NearMissSlugs == {"Luzern", "ZUG", " zug", "zug/"}

\* C12: the lookup is an exact string match: a slug that differs from a known
\* one only in case, blanks or a trailing slash resolves to "not found".
C12_ExactMatchOnly ==
    response.slug \in NearMissSlugs =>
        /\ response.op = "LocationPage" =>
              response.status = "notFound" /\ response.h1 = Undefined
        /\ response.op = "generateMetadata" =>
              response.status = "empty" /\ response.title = Undefined

C12_Witness ==
    /\ response.op = "LocationPage"
    /\ response.slug = "ZUG"
    /\ response.status = "notFound"

\* C13: the table keeps exactly its three entries and the key list its three
\* keys: no page render, metadata, static-params, sitemap or listing request
\* and no widget event changes either.
C13_TableNeverChanges ==
    /\ locations = LocationTable
    /\ Cardinality(DOMAIN locations) = 3
    /\ allLocationSlugs = ObjectKeys(LocationTable)
    /\ Len(allLocationSlugs) = 3

C13_Witness ==
    /\ response.op = "sitemap"
    /\ Submitted
    /\ IsFinite(estimatedPrice)
    /\ locations = LocationTable

\* C14: the listing endpoint returns one tuple per record, in table order, each
\* the projection slug (the key), title, description (metaDescription) and
\* heading (h1) of its record, and no other field.
C14_ListingIsProjection ==
    response.op = "GET" =>
        /\ Len(response.list) = Cardinality(DOMAIN LocationTable)
        /\ \A i \in 1..Len(response.list) :
              LET item == response.list[i]
                  rec  == LocationTable[InsertionOrder[i]]
              IN  /\ DOMAIN item = {"slug", "title", "description", "h1"}
                  /\ item.slug = InsertionOrder[i]
                  /\ item.title = rec.title
                  /\ item.description = rec.metaDescription
                  /\ item.h1 = rec.h1
        /\ \A i, j \in 1..Len(response.list) :
              response.list[i].slug = response.list[j].slug => i = j

C14_Witness ==
    /\ response.op = "GET"
    /\ Len(response.list) = 3
    /\ response.list[2].h1 = "Taxi in Luzern"

\* C15: the key list is "arth-goldau", "luzern", "zug"; generateStaticParams
\* returns one {slug} per key in that order; the record a lookup selects is the
\* one of the slug, whatever the position of the slug in the list.
C15_KeyOrderOnlyEnumerates ==
    /\ allLocationSlugs = <<"arth-goldau", "luzern", "zug">>
    /\ response.op = "generateStaticParams" =>
          response.list = <<[slug |-> "arth-goldau"], [slug |-> "luzern"], [slug |-> "zug"]>>
    /\ \A i \in 1..Len(allLocationSlugs) :
          response.op = "LocationPage" /\ response.slug = allLocationSlugs[i] =>
              response.points = LocationTable[allLocationSlugs[i]].highlightPoints

C15_Witness ==
    /\ response.op = "generateStaticParams"
    /\ Len(response.list) = 3
    /\ response.list[3] = [slug |-> "zug"]

\* C16: under every interleaving of the events of two widget instances and of
\* page renders, each instance is in the state its own events alone lead to,
\* and each render returns the outcome its slug alone determines.
C16_InstancesIndependent ==
    /\ \A i \in Instances : widgets[i] = solo[i]
    /\ response.op = "LocationPage" =>
          /\ response.status = (IF response.slug \in KnownSlugs THEN "rendered" ELSE "notFound")
          /\ response.slug \in KnownSlugs => response.h1 = LocationTable[response.slug].h1

C16_Witness ==
    /\ widgets[1].estimatedPrice = Num(1290000)
    /\ widgets[2].estimatedPrice = Num(7090000)
    /\ widgets[2].isNight
    /\ response.op = "LocationPage"
    /\ response.slug = "zug"

\* C17: a change of the distance or of the checkbox leaves the stored estimate
\* as it is; only a submit changes it.
C17_OnlySubmitChangesEstimate ==
    [][estimatedPrice' # estimatedPrice => submitCount' = submitCount + 1]_vars

\* after a valid submit and a change of an input the estimate shown is not the
\* estimate of the inputs shown
C17_Witness ==
    /\ submitCount = 0
    /\ IsFinite(estimatedPrice)
    /\ ValidDistance(distance)
    /\ estimatedPrice # SubmitResult(distance, isNight)

\* C18: every slug of the home page's area links is a known slug, so the page
\* behind every area link is rendered and never the not-found outcome.
C18_AreaLinksResolve ==
    response.op = "LocationPage"
      /\ (\E i \in 1..Len(AREAS) : AreaLinkSlug(AREAS[i]) = response.slug)
        => response.slug \in KnownSlugs /\ response.status = "rendered"

\* C19: the stored estimate is null or a number of at least 6.60, and it is
\* null until the first submit with a valid distance.
C19_NullOrAtLeastBaseFare ==
    /\ \/ estimatedPrice = Null
       \/ estimatedPrice = PosInfinity
       \/ IsFinite(estimatedPrice) /\ estimatedPrice.v >= 660 * (PriceScale \div 100)
    /\ ~hadValidSubmit => estimatedPrice = Null

\* distances of the comparison: the multiples of 1/8 km up to MaxGrid / 8 km
\* (odd multiples are the ties of the rounding without the surcharge)
MaxGrid == 104

GridDistance(k) == Num(k * (DistScale \div 8))

\* C20: the estimate does not decrease when the distance grows under the same
\* flag, and the estimate with the flag set is at least the one without it.
C20_Monotone ==
    Submitted /\ ValidDistance(distance) =>
        /\ \A k \in 1..MaxGrid :
              LET other == SubmitResult(GridDistance(k), isNight)
              IN  /\ GridDistance(k).v >= distance.v => other.v >= estimatedPrice.v
                  /\ GridDistance(k).v <= distance.v => other.v <= estimatedPrice.v
        /\ \A k \in 1..(MaxGrid - 1) :
              SubmitResult(GridDistance(k), isNight).v
                  <= SubmitResult(GridDistance(k + 1), isNight).v
        /\ isNight => estimatedPrice.v >= SubmitResult(distance, FALSE).v
        /\ ~isNight => estimatedPrice.v <= SubmitResult(distance, TRUE).v
        /\ \A k \in 1..MaxGrid :
              SubmitResult(GridDistance(k), FALSE).v <= SubmitResult(GridDistance(k), TRUE).v

C20_Witness ==
    /\ Submitted
    /\ isNight
    /\ distance = Num(1500)
    /\ estimatedPrice = Num(1550000)
    /\ SubmitResult(distance, FALSE) = Num(1290000)

\* the slugs of the /ort/<slug> entries of a sitemap, in the order of the entries
SitemapLocationSlugs(list) ==
    LET ort == SelectSeq(list, LAMBDA e : Len(e.url) = 3 /\ e.url[2] = "/ort/")
    IN  [i \in 1..Len(ort) |-> ort[i].url[3]]

\* the slugs of a list of {slug} parameters or of listing tuples
SlugsOf(list) == [i \in 1..Len(list) |-> list[i].slug]

\* C21: the /ort/<slug> entries of the sitemap, the parameters of
\* generateStaticParams and the slugs of the listing endpoint are the same
\* slugs, each once and in the same order; every one of them resolves to a
\* record; the sitemap has them after its seven static routes.
C21_EnumerationsAgree ==
    response.op \in {"sitemap", "generateStaticParams", "GET"} =>
        LET returned == IF response.op = "sitemap"
                          THEN SitemapLocationSlugs(response.list)
                          ELSE SlugsOf(response.list)
        IN  /\ returned = SitemapLocationSlugs(sitemap(allLocationSlugs).list)
            /\ returned = SlugsOf(generateStaticParams(allLocationSlugs).list)
            /\ returned = SlugsOf(GET(locations).list)
            /\ Len(returned) = Cardinality(DOMAIN locations)
            /\ \A i, j \in 1..Len(returned) : returned[i] = returned[j] => i = j
            /\ \A i \in 1..Len(returned) :
                  /\ LocationPage(locations, returned[i]).status = "rendered"
                  /\ generateMetadata(locations, returned[i]).status = "metadata"
            /\ response.op = "sitemap" =>
                  /\ Len(response.list) = 7 + Len(returned)
                  /\ \A i \in 1..7 : response.list[i].url = <<BaseUrl, StaticRoutes[i]>>
                  /\ \A i \in 1..Len(returned) :
                        response.list[7 + i].url = <<BaseUrl, "/ort/", returned[i]>>

C21_Witness ==
    /\ response.op = "sitemap"
    /\ Len(response.list) = 10
    /\ response.list[8].url = <<BaseUrl, "/ort/", "arth-goldau">>
    /\ response.list[10].url = <<BaseUrl, "/ort/", "zug">>

\* distances of the step of the distance field: the multiples of 0.5 km up to
\* MaxHalfSteps / 2 km
MaxHalfSteps == 60

HalfStepDistance(k) == Num(k * (DistScale \div 2))

\* x, counted in 1/PriceScale, lies halfway between two integers
IsTie(x) == IsFinite(x) /\ x.v % PriceScale = PriceScale \div 2

\* the nearest integer, a tie going to the even one
RoundHalfEven(x) ==
    LET floor == x.v \div PriceScale
    IN  IF ~IsFinite(x) THEN x
        ELSE IF IsTie(x) THEN Num((IF floor % 2 = 0 THEN floor ELSE floor + 1) * PriceScale)
        ELSE Num(((x.v + PriceScale \div 2) \div PriceScale) * PriceScale)

\* C22: for a distance that is a positive multiple of 0.5 km, with or without
\* the surcharge, the fare times 20 is never halfway between two integers, so
\* the estimate is the one round-half-to-even gives; without the surcharge the
\* fare is a multiple of 0.05 and the estimate equals it.
C22_HalfStepsNeverTie ==
    /\ \A k \in 1..MaxHalfSteps : \A night \in BOOLEAN :
          LET fare == Price(HalfStepDistance(k), night)
          IN  /\ ~IsTie(Times(fare, 20))
              /\ RoundedPrice(fare) = DividedBy(RoundHalfEven(Times(fare, 20)), 20)
              /\ ~night => /\ fare.v % (PriceScale \div 20) = 0
                           /\ RoundedPrice(fare) = fare
    /\ Submitted /\ ValidDistance(distance) /\ distance.v % (DistScale \div 2) = 0 =>
          /\ ~IsTie(Times(Price(distance, isNight), 20))
          /\ estimatedPrice = DividedBy(RoundHalfEven(Times(Price(distance, isNight), 20)), 20)
          /\ ~isNight => estimatedPrice = Price(distance, isNight)

\* 12.5 km without the surcharge: the fare 59.10 is stored as it is
C22_Witness ==
    /\ Submitted
    /\ ~isNight
    /\ distance = HalfStepDistance(25)
    /\ estimatedPrice = Price(distance, isNight)
    /\ estimatedPrice = Num(5910 * (PriceScale \div 100))

\* C23: the mobile menu is closed initially; a click on the menu button flips
\* it; a click on a navigation link or on the call link inside the open menu
\* leaves it closed; a scroll event leaves the menu as it is and sets
\* isScrolled to whether the scroll offset exceeds 10; nothing else changes
\* either of the two.
C23_MenuBehaviour ==
    /\ ~menuOpen
    /\ [][/\ headerEvent' = "menuButton" => menuOpen' = ~menuOpen
          /\ headerEvent' \in {"menuLink", "menuCallLink"} => menuOpen /\ ~menuOpen'
          /\ headerEvent' = "scroll" =>
                /\ menuOpen' = menuOpen
                /\ isScrolled' = (scrollY' > 10)
          /\ menuOpen' # menuOpen =>
                headerEvent' \in {"menuButton", "menuLink", "menuCallLink"}
          /\ isScrolled' # isScrolled => headerEvent' = "scroll"]_vars

\* the menu was opened, the page scrolled past the offset, and a link of the
\* menu clicked
C23_Witness ==
    /\ headerEvent = "menuLink"
    /\ followedHref = "/preise"
    /\ ~menuOpen
    /\ isScrolled
    /\ scrollY = 11

=============================================================================
